---- MODULE Spec2Model ----
(***************************************************************************)
(* The orchestration pipeline of the Nano Banana Pro image generator.      *)
(*                                                                         *)
(* Two programs share the code: the web server of app.py (POST /run ->     *)
(* trigger_run -> background tasks -> run_workflow -> main.main) and a     *)
(* direct caller of main.main (the command line of main.py, or any caller  *)
(* of the function with keyword arguments).  Init picks which one runs.    *)
(*                                                                         *)
(* Python values:                                                          *)
(*   - Optional[T] is a set with at most one element: None is {} and a     *)
(*     value v is {v};                                                     *)
(*   - a dict is a function whose DOMAIN is its set of keys;               *)
(*   - a URL string is a sequence of characters (run_flow splits and       *)
(*     strips the stored string); every other string is a TLA+ string;     *)
(*   - a column of a stored row, whose Python type is not fixed, is a      *)
(*     record [type, val] with type in "list", "str", "none", "int".       *)
(***************************************************************************)
EXTENDS Integers, Sequences, FiniteSets, TLC

VARIABLES
    entry,             \* "app": the web server runs; "main": main.main is called directly
    env,               \* the environment variables and the optional generator module
    prompt_table,      \* table nano_banana_prompt_config: category_type -> row
    http,              \* the POST /run exchange being served (app.py)
    background_tasks,  \* BackgroundTasks: the scheduled run_workflow calls, in order
    job                \* per worker: the frame of run_workflow / main.main / run_flow

vars == <<entry, env, prompt_table, http, background_tasks, job>>

-----------------------------------------------------------------------------
(* Python values *)

None == {}
Some(v) == {v}
Val(o) == CHOOSE v \in o : TRUE

\* bool(x) of an Optional[str]: None and "" are falsy
TruthyStr(o) == o # None /\ Val(o) # ""

\* bool(x) of an Optional[list]: None and [] are falsy
TruthyList(o) == o # None /\ Val(o) # <<>>

EmptyDict == [k \in {} |-> ""]
DictSet(d, key, v) == [k \in (DOMAIN d) \cup {key} |-> IF k = key THEN v ELSE d[k]]
DictGet(d, key, default) == IF key \in DOMAIN d THEN d[key] ELSE default

\* range(n): empty when n <= 0
Range(n) == 1..n

-----------------------------------------------------------------------------
(* Bounds of the model *)

\* the longest batch POST /run receives
MaxBatch == 2

-----------------------------------------------------------------------------
(* app.py: RunRequest and trigger_run *)

DefaultDriveFolder == "1H4wWGNaY01skMzUvQtQmHWlabaTc4rHx"

\* The request bodies the model posts.  The fields the fan-out reads or
\* writes vary; one more (prompts) varies so that a copy can be told from
\* the copy of another request; the rest keep the defaults of RunRequest.
RunRequest ==
    [ save_remotely : {TRUE},
      drive_folder_id : {Some(DefaultDriveFolder)},
      category : {None},
      min_val : {None, Some(7)},
      max_val : {None, Some(-1), Some(0), Some(3)},
      resolution : {None},
      aspect_ratio : {None},
      mode : {Some("standard")},
      model_version : {None},
      image_urls : {None},
      prompts : {None, Some(<<"a cat">>)},
      image_selection_strategy : {Some("random")},
      source_image_folder_ids : {None},
      spawn_duplicate_requests : BOOLEAN,
      random_image_prefix : {None},
      random_prefix_target_folder_ids : {None} ]

RECURSIVE SeqsUpTo(_, _)
SeqsUpTo(S, n) ==
    IF n = 0 THEN {<<>>}
    ELSE LET shorter == SeqsUpTo(S, n - 1)
         IN shorter \cup {Append(s, x) : s \in {t \in shorter : Len(t) = n - 1}, x \in S}

Batches == SeqsUpTo(RunRequest, MaxBatch)

\* The objects of the handler live in a heap (a sequence of RunRequest
\* records, an object being its index), so that a copy and its original are
\* two objects.  model_copy allocates a new object with the same fields.
\* a mutant of model_copy: no copy is made, the "copy" is the request itself
ModelCopyAliased(heap, oid) == [heap |-> heap, oid |-> oid]

model_copy(heap, oid) ==
    [heap |-> Append(heap, heap[oid]), oid |-> Len(heap) + 1]

\* a mutant of duplication_count: at least one copy is made
DuplicationCountAtLeastOne(request) ==
    IF request.max_val # None
    THEN IF Val(request.max_val) < 1 THEN 1 ELSE Val(request.max_val)
    ELSE 5

\* app.py 98
duplication_count(request) ==
    IF request.max_val # None THEN Val(request.max_val) ELSE 5

\* a mutant of SpawnOne: "min_val = max_val", the direction the comment names
SpawnOneReversed(st, oid) ==
    LET c == model_copy(st.heap, oid)
        h1 == [c.heap EXCEPT ![c.oid].min_val = c.heap[c.oid].max_val]
    IN [heap |-> h1, final_requests |-> Append(st.final_requests, c.oid),
        source_of |-> Append(st.source_of, oid)]

\* app.py 101-110: one iteration of the inner loop
SpawnOne(st, oid) ==
    LET c == model_copy(st.heap, oid)
        h1 == [c.heap EXCEPT ![c.oid].min_val = c.heap[c.oid].min_val]
        h2 == [h1 EXCEPT ![c.oid].max_val = h1[c.oid].min_val]
    IN [heap |-> h2, final_requests |-> Append(st.final_requests, c.oid),
        source_of |-> Append(st.source_of, oid)]

RECURSIVE SpawnLoop(_, _, _)
SpawnLoop(st, oid, todo) ==
    IF todo = {} THEN st
    ELSE LET i == CHOOSE x \in todo : \A y \in todo : x <= y
         IN SpawnLoop(SpawnOne(st, oid), oid, todo \ {i})

\* a mutant of ExpandOne: range(abs(n)), or a loop that runs at least once
ExpandOneAbs(st, oid) ==
    IF st.heap[oid].spawn_duplicate_requests
    THEN LET n == duplication_count(st.heap[oid])
         IN SpawnLoop(st, oid, Range(IF n < 0 THEN -n ELSE IF n = 0 THEN 1 ELSE n))
    ELSE [st EXCEPT !.final_requests = Append(@, oid), !.source_of = Append(@, oid)]

\* app.py 93-112: the body of the outer loop for one request
ExpandOne(st, oid) ==
    IF st.heap[oid].spawn_duplicate_requests
    THEN SpawnLoop(st, oid, Range(duplication_count(st.heap[oid])))
    ELSE [st EXCEPT !.final_requests = Append(@, oid), !.source_of = Append(@, oid)]

RECURSIVE ExpandLoop(_, _, _)
ExpandLoop(st, requests, i) ==
    IF i > Len(requests) THEN st
    ELSE ExpandLoop(ExpandOne(st, requests[i]), requests, i + 1)

\* app.py 91-112: requests are objects 1..Len(body) of the heap; source_of
\* records, for each element of final_requests, the request of the batch whose
\* iteration appended it
Expand(body) ==
    ExpandLoop([heap |-> body, final_requests |-> <<>>, source_of |-> <<>>],
               [i \in 1..Len(body) |-> i], 1)

\* app.py 116-133: add_task(run_workflow, request.save_remotely, ...): the
\* fifteen positional arguments, named by the parameters of run_workflow
RunWorkflowParams ==
    { "save_remotely", "drive_folder_id", "category", "min_val", "max_val",
      "resolution", "aspect_ratio", "mode", "model_version", "image_urls",
      "prompts", "image_selection_strategy", "source_image_folder_ids",
      "random_image_prefix", "random_prefix_target_folder_ids" }

TaskOf(request) == [k \in RunWorkflowParams |-> request[k]]

ScheduledTasks(st) ==
    [i \in 1..Len(st.final_requests) |-> TaskOf(st.heap[st.final_requests[i]])]

\* app.py 13-32
\* a mutant of verify_token: with no secret configured every token passes
VerifyTokenOpenWithoutSecret(token, expected_token) ==
    IF ~TruthyStr(expected_token) THEN 200
    ELSE IF token # Val(expected_token) THEN 401
    ELSE 200

verify_token(token, expected_token) ==
    IF ~TruthyStr(expected_token) THEN 500
    ELSE IF token # Val(expected_token) THEN 401
    ELSE 200

-----------------------------------------------------------------------------
(* The stores and the collaborators *)

CategoryTypes == {"MD", "Self"}

ListCol(l) == [type |-> "list", val |-> l]
NoneCol == [type |-> "none", val |-> <<>>]
\* a str column holds its one string as the only element of val
StrCol(s) == [type |-> "str", val |-> <<s>>]

RowFull ==
    [ system_prompt |-> "SYS",
      standard_prompt |-> ListCol(<<"s1", "s2">>),
      dynamic_prompt |-> ListCol(<<"d1">>),
      image_urls |-> ListCol(<< <<"x">>, <<"y">> >>),
      generated_prompts |-> ListCol(<<"old">>) ]

RowLoose ==
    [ system_prompt |-> "SYS",
      standard_prompt |-> NoneCol,
      dynamic_prompt |-> ListCol(<<>>),
      image_urls |-> StrCol(<<"x", ",", " ", "y">>),
      generated_prompts |-> NoneCol ]

\* a column holding a json value that is neither null, a string nor an array
OtherCol == [type |-> "other", val |-> <<>>]

\* a row whose image_urls is a string with blanks around its entries and an
\* empty entry, and whose dynamic_prompt is a string
RowText ==
    [ system_prompt |-> "SYS",
      standard_prompt |-> ListCol(<<"s1">>),
      dynamic_prompt |-> StrCol("d1"),
      image_urls |-> StrCol(<<" ", "x", ",", ",", "y", " ">>),
      generated_prompts |-> ListCol(<<"old">>) ]

\* a row whose image_urls is a number or an object, and whose
\* standard_prompt is one
RowOther ==
    [ system_prompt |-> "SYS",
      standard_prompt |-> OtherCol,
      dynamic_prompt |-> ListCol(<<"d1">>),
      image_urls |-> OtherCol,
      generated_prompts |-> ListCol(<<>>) ]

\* a row whose image_urls is null
RowNull ==
    [ system_prompt |-> "SYS",
      standard_prompt |-> ListCol(<<"s1">>),
      dynamic_prompt |-> NoneCol,
      image_urls |-> NoneCol,
      generated_prompts |-> NoneCol ]

\* the contents of nano_banana_prompt_config the model starts from: at most
\* one row per category_type, and none for "Self"
PromptTables ==
    { [c \in CategoryTypes |-> IF c = "MD" THEN r ELSE None] :
        r \in {None, Some(RowFull), Some(RowLoose), Some(RowText), Some(RowOther),
               Some(RowNull)} }

\* rows of the table model_config, as select("name, config") returns them
ModelRows ==
    { [name |-> Some("v1"), config |-> [k \in {"resolution", "aspect_ratio"} |->
                                          IF k = "resolution" THEN "1K" ELSE "4:3"],
       isActive |-> FALSE],
      [name |-> Some("v2"), config |-> EmptyDict, isActive |-> TRUE],
      [name |-> None, config |-> [k \in {"resolution"} |-> "1K"], isActive |-> TRUE],
      [name |-> None, config |-> EmptyDict, isActive |-> TRUE] }

\* what the language model may answer: any list, whatever count was asked
LlmOutputs == {<<>>, <<"g1">>, <<"g1", "g2">>}

\* the environments: everything set, or one thing missing
EnvAllSet ==
    [ SUPABASE |-> TRUE, OPENAI_API_KEY |-> TRUE, API_AUTH_TOKEN |-> Some("secret"),
      NanoBananaProGenerator |-> TRUE ]

MainEnvs ==
    { EnvAllSet,
      [EnvAllSet EXCEPT !.SUPABASE = FALSE],
      [EnvAllSet EXCEPT !.OPENAI_API_KEY = FALSE],
      [EnvAllSet EXCEPT !.NanoBananaProGenerator = FALSE] }

AppEnvs == { EnvAllSet, [EnvAllSet EXCEPT !.API_AUTH_TOKEN = None] }

BearerTokens == {"secret", "wrong"}

-----------------------------------------------------------------------------
(* src/utils.py *)

\* utils.py 7-10: the random choice is commented out
get_random_category == "MD"

\* utils.py 12-15: random.randint(a, b) raises ValueError when a > b
RandintRaises(min_val, max_val) == min_val > max_val
\* a mutant of get_random_prompt_count: the draw starts from zero
GetRandomPromptCountFromZero(min_val, max_val) == 0..max_val

get_random_prompt_count(min_val, max_val) == min_val..max_val

-----------------------------------------------------------------------------
(* src/orchestrator.py: the pure parts of run_flow *)

\* orchestrator.py 22
needs_config(image_urls, prompts) == image_urls = None \/ prompts = None

\* a mutant of SelectCategory: a category is drawn whenever none is given
SelectCategoryAlways(category, image_urls, prompts) ==
    IF TruthyStr(category) THEN category ELSE Some(get_random_category)

\* orchestrator.py 26-33
SelectCategory(category, image_urls, prompts) ==
    IF TruthyStr(category) THEN category
    ELSE IF needs_config(image_urls, prompts) THEN Some(get_random_category)
    ELSE category

\* a mutant of FetchesConfig: the template is fetched whenever a category is known
FetchesConfigAlways(category, image_urls, prompts) == TruthyStr(category)

\* orchestrator.py 36
FetchesConfig(category, image_urls, prompts) ==
    needs_config(image_urls, prompts) /\ TruthyStr(category)

\* str.strip() and str.split(',') on a sequence of characters
Whitespace == {" "}

RECURSIVE LStrip(_)
LStrip(s) == IF s # <<>> /\ Head(s) \in Whitespace THEN LStrip(Tail(s)) ELSE s

RECURSIVE RStrip(_)
RStrip(s) ==
    IF s # <<>> /\ s[Len(s)] \in Whitespace THEN RStrip(SubSeq(s, 1, Len(s) - 1)) ELSE s

Strip(s) == RStrip(LStrip(s))

RECURSIVE SplitFrom(_, _, _)
SplitFrom(s, done, cur) ==
    IF s = <<>> THEN Append(done, cur)
    ELSE IF Head(s) = "," THEN SplitFrom(Tail(s), Append(done, cur), <<>>)
    ELSE SplitFrom(Tail(s), done, Append(cur, Head(s)))

Split(s) == SplitFrom(s, <<>>, <<>>)

\* a mutant of ConfigImageUrls: the entries of the string are not trimmed
ConfigImageUrlsUntrimmed(row) ==
    LET col == row.image_urls
    IN IF col.type = "str" THEN Split(col.val[1])
       ELSE IF col.type = "list" THEN col.val
       ELSE <<>>

\* orchestrator.py 48-54
ConfigImageUrls(row) ==
    LET col == row.image_urls
    IN IF col.type = "str"
       THEN LET parts == Split(col.val[1]) IN [i \in 1..Len(parts) |-> Strip(parts[i])]
       ELSE IF col.type = "list" THEN col.val
       ELSE <<>>

\* a mutant of ResolveImages: the stored images win when a record was fetched
ResolveImagesStoredFirst(image_urls, config) ==
    IF config # None THEN ConfigImageUrls(Val(config))
    ELSE IF image_urls = None THEN <<>> ELSE Val(image_urls)

\* a mutant of ResolveImages: without a stored record no image is kept
ResolveImagesNeedsRecord(image_urls, config) ==
    IF config = None THEN <<>>
    ELSE IF image_urls = None THEN ConfigImageUrls(Val(config)) ELSE Val(image_urls)

\* orchestrator.py 46-60
ResolveImages(image_urls, config) ==
    IF image_urls = None
    THEN IF config # None THEN ConfigImageUrls(Val(config)) ELSE <<>>
    ELSE Val(image_urls)

\* a mutant of InstructionChoices: only mode "standard" reads standard_prompt
InstructionChoicesStandardByName(row, mode) ==
    LET col == IF mode = Some("standard") THEN row.standard_prompt ELSE row.dynamic_prompt
    IN IF col.type = "list" /\ col.val # <<>>
       THEN {col.val[i] : i \in 1..Len(col.val)}
       ELSE {""}

\* orchestrator.py 68-84: the list random.choice draws from, empty when the
\* column is empty or not a list
InstructionChoices(row, mode) ==
    LET col == IF mode = Some("random") THEN row.dynamic_prompt ELSE row.standard_prompt
    IN IF col.type = "list" /\ col.val # <<>>
       THEN {col.val[i] : i \in 1..Len(col.val)}
       ELSE {""}

\* orchestrator.py 87: the f-string, kept as its three pieces
PromptInstruction(system_prompt, selected_instruction) ==
    <<system_prompt, "\n\n", selected_instruction>>

\* orchestrator.py 95-96
target_min(min_val) == IF min_val # None THEN Val(min_val) ELSE 2
target_max(max_val) == IF max_val # None THEN Val(max_val) ELSE 5

\* orchestrator.py 95-99: the counts run_flow may ask the language model for
PromptCounts(min_val, max_val) ==
    IF RandintRaises(target_min(min_val), target_max(max_val)) THEN {}
    ELSE get_random_prompt_count(target_min(min_val), target_max(max_val))

\* a mutant of Persists: the append is called whatever was generated
PersistsAlways(generated_prompts) == TRUE

\* orchestrator.py 112: the append is called when the list is not empty
Persists(generated_prompts) == generated_prompts # <<>>

\* a mutant of GeneratesPrompts: prompts are generated whenever a record was fetched
GeneratesPromptsAlways(prompts, config) == config # None

\* orchestrator.py 63-64
GeneratesPrompts(prompts, config) == prompts = None /\ config # None

-----------------------------------------------------------------------------
(* src/database.py and src/llm.py: what a call may return *)

\* database.py 15-39: the first matching row, or None when there is none or
\* the query raised
get_prompt_config(table, category_type) ==
    {table[category_type], None}

\* database.py 72-109: the rows the filter of the query lets through
ModelQueryMatches(model_version) ==
    IF TruthyStr(model_version)
    THEN {r \in ModelRows : r.name = model_version}
    ELSE {r \in ModelRows : r.isActive}

\* database.py 92-103: the config of the row, with its name injected
ModelConfigOf(row) ==
    IF TruthyStr(row.name) THEN DictSet(row.config, "model_version", Val(row.name))
    ELSE row.config

\* database.py 72-109: a dict, or None (no match, or the query raised)
get_model_config(model_version) ==
    {Some(ModelConfigOf(r)) : r \in ModelQueryMatches(model_version)} \cup {None}

\* database.py 54-58: the stored log as append_generated_prompts reads it, []
\* when the category has no row or the column is null
StoredLog(table, category_type) ==
    IF table[category_type] # None
       /\ Val(table[category_type]).generated_prompts.type = "list"
    THEN Val(table[category_type]).generated_prompts.val
    ELSE <<>>

\* a mutant of UpdatedPrompts: the update writes the new prompts alone
UpdatedPromptsOverwrites(existing_prompts, new_prompts) == new_prompts

\* database.py 61
UpdatedPrompts(existing_prompts, new_prompts) == existing_prompts \o new_prompts

-----------------------------------------------------------------------------
(* main.py: main.main *)

\* main.py 22: the parameters of main.main
MainParams ==
    { "save_remotely", "drive_folder_id", "category", "min_val", "max_val",
      "resolution", "aspect_ratio", "mode", "model_version", "image_urls", "prompts" }

AllMainArgs ==
    [ save_remotely : {TRUE},
      drive_folder_id : {Some(DefaultDriveFolder)},
      category : {None, Some("MD"), Some("Self")},
      min_val : {None, Some(3), Some(7)},
      max_val : {None, Some(3)},
      resolution : {None, Some(""), Some("4K")},
      aspect_ratio : {None, Some("1:1")},
      mode : {Some("standard"), Some("random"), Some("other")},
      model_version : {None, Some("v1")},
      image_urls : {None, Some(<<>>), Some(<< <<"u">> >>)},
      prompts : {None, Some(<<>>), Some(<<"p1", "p2">>)} ]

\* The arguments the model calls main.main with: the arguments of the
\* prompt flow vary while those of the model configuration keep their
\* defaults, or the other way round (the two halves of main.main do not read
\* each other's arguments).
ModelArgsDefault(a) ==
    a.resolution = None /\ a.aspect_ratio = None /\ a.model_version = None

FlowArgsPlain(a) ==
    a.min_val = None /\ a.max_val = None /\ a.mode = Some("standard")

MainArgs == {a \in AllMainArgs : ModelArgsDefault(a) \/ FlowArgsPlain(a)}

\* main.py 22: the defaults of main.main
DefaultArgs ==
    [ save_remotely |-> TRUE, drive_folder_id |-> Some(DefaultDriveFolder),
      category |-> None, min_val |-> None, max_val |-> None, resolution |-> None,
      aspect_ratio |-> None, mode |-> Some("standard"), model_version |-> None,
      image_urls |-> None, prompts |-> None ]

default_model_version == "google/nano-banana-pro"

\* a mutant of ResolvedModelVersion: the record's name is never used
ResolvedModelVersionIgnoresRecord(model_version, fetched_config) ==
    IF model_version = None THEN Some(default_model_version) ELSE model_version

\* main.py 34-50: the model version after the lookup
ResolvedModelVersion(model_version, fetched_config) ==
    IF fetched_config # None /\ Val(fetched_config) # EmptyDict
    THEN IF "model_version" \in DOMAIN Val(fetched_config)
         THEN Some(Val(fetched_config)["model_version"])
         ELSE model_version
    ELSE IF model_version = None THEN Some(default_model_version) ELSE model_version

\* a mutant of ResolvedDbConfig: the stored value wins, the override fills gaps
ResolvedDbConfigStoredFirst(fetched_config, resolution, aspect_ratio) ==
    LET d0 == IF fetched_config # None /\ Val(fetched_config) # EmptyDict
              THEN Val(fetched_config) ELSE EmptyDict
        d1 == IF TruthyStr(resolution) /\ "resolution" \notin DOMAIN d0
              THEN DictSet(d0, "resolution", Val(resolution)) ELSE d0
    IN IF TruthyStr(aspect_ratio) /\ "aspect_ratio" \notin DOMAIN d1
       THEN DictSet(d1, "aspect_ratio", Val(aspect_ratio)) ELSE d1

\* main.py 34-56: db_config after the lookup and the caller's overrides
ResolvedDbConfig(fetched_config, resolution, aspect_ratio) ==
    LET d0 == IF fetched_config # None /\ Val(fetched_config) # EmptyDict
              THEN Val(fetched_config) ELSE EmptyDict
        d1 == IF TruthyStr(resolution) THEN DictSet(d0, "resolution", Val(resolution)) ELSE d0
    IN IF TruthyStr(aspect_ratio) THEN DictSet(d1, "aspect_ratio", Val(aspect_ratio)) ELSE d1

\* main.py 59-60: read for the log line only
current_res(db_config) == DictGet(db_config, "resolution", "2K")
current_ar(db_config) == DictGet(db_config, "aspect_ratio", "16:9")

\* a mutant of EndsWithoutPrompts: main.main goes on whatever run_flow returned
EndsWithoutPromptsNever(prompts) == FALSE

\* main.py 82-84: `if not prompts:` prints and returns
EndsWithoutPrompts(prompts) == prompts = <<>>

\* main.py 109: the mapping handed to generator.generate as input_config
InputConfig(db_config) == db_config

-----------------------------------------------------------------------------
(* The frame of one job *)

IdleJob ==
    [ pc |-> "idle",
      origin |-> "none",
      args |-> DefaultArgs,
      fetched_config |-> None,
      model_version |-> None,
      db_config |-> EmptyDict,
      category |-> None,
      image_urls |-> None,
      prompts |-> None,
      config |-> None,
      prompt_instruction |-> <<>>,
      prompt_count |-> None,
      generated_prompts |-> <<>>,
      existing_prompts |-> <<>>,
      append_outcome |-> "none",
      result |-> None,
      generate_call |-> None,
      calls |-> <<>>,
      outcome |-> "none" ]

NoHttp ==
    [ status |-> 0, token |-> None, body |-> <<>>, heap |-> <<>>,
      final_requests |-> <<>>, source_of |-> <<>>, workflows_started |-> 0 ]

Workers == {"w1"}

Init ==
    /\ \/ entry = "app" /\ env \in AppEnvs /\ prompt_table \in {t \in PromptTables : t["MD"] = Some(RowFull)}
       \/ entry = "main" /\ env \in MainEnvs /\ prompt_table \in PromptTables
    /\ http = NoHttp
    /\ background_tasks = <<>>
    /\ job = [w \in Workers |-> IdleJob]

Finish(w, outcome) == [job EXCEPT ![w].pc = "done", ![w].outcome = outcome]

Called(j, name) == [j EXCEPT !.calls = Append(@, name)]

-----------------------------------------------------------------------------
(* app.py: POST /run *)

\* app.py 13-32, 86-134: verify_token, then the whole of trigger_run; the
\* model follows one exchange of the server
TriggerRun ==
    /\ entry = "app"
    /\ http = NoHttp
    /\ \E token \in BearerTokens, body \in Batches :
         LET status == verify_token(token, env.API_AUTH_TOKEN)
             st == Expand(body)
         IN IF status = 200
            THEN /\ http' = [ status |-> 200, token |-> Some(token), body |-> body,
                              heap |-> st.heap,
                              final_requests |-> st.final_requests,
                              source_of |-> st.source_of,
                              workflows_started |-> Len(st.final_requests) ]
                 /\ background_tasks' = ScheduledTasks(st)
            ELSE /\ http' = [NoHttp EXCEPT !.status = status, !.token = Some(token),
                                           !.body = body, !.heap = body]
                 /\ background_tasks' = <<>>
    /\ UNCHANGED <<entry, env, prompt_table, job>>

\* app.py 52-80: the background worker runs the next task; the keyword
\* arguments of the call main.main(...) at lines 62-78 are the fifteen
\* parameters of run_workflow, and a keyword main.main does not have raises
\* TypeError, which the except of line 79 catches
RunWorkflow(w) ==
    /\ entry = "app"
    /\ background_tasks # <<>>
    /\ job[w].pc \in {"idle", "done"}
    /\ LET task == Head(background_tasks)
       IN job' = [job EXCEPT ![w] =
                    IF RunWorkflowParams \subseteq MainParams
                    THEN [IdleJob EXCEPT !.pc = "main", !.origin = "api",
                                         !.args = [k \in MainParams |-> task[k]]]
                    ELSE [IdleJob EXCEPT !.pc = "done", !.origin = "api",
                                         !.outcome = "workflow_error"]]
    /\ background_tasks' = Tail(background_tasks)
    /\ UNCHANGED <<entry, env, prompt_table, http>>

\* main.py 22: a direct call of main.main, its arguments drawn from argset
StartMain(w, argset) ==
    /\ entry = "main"
    /\ job[w].pc = "idle"
    /\ \E args \in argset :
         job' = [job EXCEPT ![w] = [IdleJob EXCEPT !.pc = "main", !.origin = "direct",
                                                   !.args = args]]
    /\ UNCHANGED <<entry, env, prompt_table, http, background_tasks>>

CallMain(w) == StartMain(w, MainArgs)

\* an exception that leaves main.main: run_workflow catches it (app.py 79),
\* a direct caller sees it
Raised(j, exception) ==
    [j EXCEPT !.pc = "done",
              !.outcome = IF j.origin = "api" THEN "workflow_error" ELSE exception]

\* a mutant of ConfigurationPresent: the key of the language model is not
\* looked at
ConfigurationPresentStoreOnly(e) == e.SUPABASE

\* database.py 7-11, llm.py 8-11: SUPABASE_URL and SUPABASE_KEY are both set
\* (SUPABASE) and OPENAI_API_KEY is set
ConfigurationPresent(e) == e.SUPABASE /\ e.OPENAI_API_KEY

\* main.py 25-31: Orchestrator() builds SupabaseManager and OpenAIGenerator
\* (database.py 5-13, llm.py 6-13); a missing variable raises ValueError,
\* main.main prints and returns
MainInit(w) ==
    /\ job[w].pc = "main"
    /\ job' = IF ConfigurationPresent(env)
              THEN [job EXCEPT ![w].pc = "model_config"]
              ELSE Finish(w, "configuration_error")
    /\ UNCHANGED <<entry, env, prompt_table, http, background_tasks>>

\* main.py 33-62: the model configuration
MainModelConfig(w) ==
    /\ job[w].pc = "model_config"
    /\ \E fetched_config \in get_model_config(job[w].args.model_version) :
         job' = [job EXCEPT ![w] =
                   [Called(@, "get_model_config") EXCEPT
                      !.pc = "run_flow",
                      !.fetched_config = fetched_config,
                      !.model_version =
                          ResolvedModelVersion(job[w].args.model_version, fetched_config),
                      !.db_config =
                          ResolvedDbConfig(fetched_config, job[w].args.resolution,
                                           job[w].args.aspect_ratio)]]
    /\ UNCHANGED <<entry, env, prompt_table, http, background_tasks>>

-----------------------------------------------------------------------------
(* src/orchestrator.py: Orchestrator.run_flow, called at main.py 65-72 *)

\* orchestrator.py 17-43: the category and the template fetch
RunFlowConfig(w) ==
    /\ job[w].pc = "run_flow"
    /\ LET a == job[w].args
           category == SelectCategory(a.category, a.image_urls, a.prompts)
           j0 == IF ~TruthyStr(a.category) /\ needs_config(a.image_urls, a.prompts)
                 THEN Called(job[w], "get_random_category") ELSE job[w]
       IN IF FetchesConfig(category, a.image_urls, a.prompts)
          THEN \E config \in get_prompt_config(prompt_table, Val(category)) :
                 job' = [job EXCEPT ![w] =
                           [Called(j0, "get_prompt_config") EXCEPT
                              !.pc = "images", !.category = category, !.config = config]]
          ELSE job' = [job EXCEPT ![w] =
                         [j0 EXCEPT !.pc = "images", !.category = category,
                                    !.config = None]]
    /\ UNCHANGED <<entry, env, prompt_table, http, background_tasks>>

\* orchestrator.py 45-60: the image list
RunFlowImages(w) ==
    /\ job[w].pc = "images"
    /\ LET a == job[w].args
           j0 == IF a.image_urls = None /\ job[w].config # None
                 THEN Called(job[w], "config.get(image_urls)") ELSE job[w]
       IN job' = [job EXCEPT ![w] =
                    [j0 EXCEPT !.pc = "prompts",
                               !.image_urls = Some(ResolveImages(a.image_urls, job[w].config))]]
    /\ UNCHANGED <<entry, env, prompt_table, http, background_tasks>>

\* orchestrator.py 62-100, 117-121: the instruction and the prompt count, or
\* the prompts as given, or none
RunFlowPrompts(w) ==
    /\ job[w].pc = "prompts"
    /\ LET a == job[w].args
       IN IF GeneratesPrompts(a.prompts, job[w].config)
          THEN LET row == Val(job[w].config)
                   j0 == Called(job[w], "get_random_prompt_count")
               IN IF PromptCounts(a.min_val, a.max_val) = {}
                  THEN job' = [job EXCEPT ![w] = Raised(j0, "ValueError")]
                  ELSE \E selected_instruction \in InstructionChoices(row, a.mode),
                          prompt_count \in PromptCounts(a.min_val, a.max_val) :
                         job' = [job EXCEPT ![w] =
                                   [j0 EXCEPT
                                      !.pc = "generate_prompts",
                                      !.prompt_instruction =
                                          PromptInstruction(row.system_prompt,
                                                            selected_instruction),
                                      !.prompt_count = Some(prompt_count)]]
          ELSE job' = [job EXCEPT ![w].pc = "return",
                                  ![w].prompts =
                                      IF a.prompts = None THEN Some(<<>>) ELSE a.prompts]
    /\ UNCHANGED <<entry, env, prompt_table, http, background_tasks>>

\* orchestrator.py 102-116, llm.py 15-48: the language model answers with a
\* list, or the call fails and generate_image_prompts returns []
RunFlowGenerate(w) ==
    /\ job[w].pc = "generate_prompts"
    /\ \E generated_prompts \in LlmOutputs :
         job' = [job EXCEPT ![w] =
                   [Called(@, "generate_image_prompts") EXCEPT
                      !.generated_prompts = generated_prompts,
                      !.pc = IF Persists(generated_prompts) THEN "append_read"
                             ELSE "return",
                      !.prompts = IF Persists(generated_prompts) THEN @
                                  ELSE Some(generated_prompts)]]
    /\ UNCHANGED <<entry, env, prompt_table, http, background_tasks>>

\* a mutant of AppendFailed: the exception leaves append_generated_prompts
AppendFailedPropagates(j) == Raised(j, "Exception")

\* database.py 69-70, orchestrator.py 112-116: the except clause prints, the
\* append returns and run_flow goes on with the generated prompts
AppendFailed(j) ==
    [j EXCEPT !.pc = "return", !.append_outcome = "error",
              !.prompts = Some(j.generated_prompts)]

\* database.py 46-59: append_generated_prompts reads the stored log; when the
\* query raises, the except of line 69 ends the append
AppendRead(w) ==
    /\ job[w].pc = "append_read"
    /\ \E ok \in BOOLEAN :
         LET j0 == Called(job[w], "append_generated_prompts")
         IN job' = [job EXCEPT ![w] =
                      IF ok
                      THEN [j0 EXCEPT
                              !.pc = "append_update",
                              !.existing_prompts =
                                  StoredLog(prompt_table, Val(job[w].category))]
                      ELSE AppendFailed(j0)]
    /\ UNCHANGED <<entry, env, prompt_table, http, background_tasks>>

\* database.py 61-70: the update of the rows of the category (none when the
\* category has no row), or the query raises; run_flow goes on either way
AppendUpdate(w) ==
    /\ job[w].pc = "append_update"
    /\ \E ok \in BOOLEAN :
         LET c == Val(job[w].category)
             updated_prompts == UpdatedPrompts(job[w].existing_prompts,
                                               job[w].generated_prompts)
         IN /\ prompt_table' =
                 IF ok /\ prompt_table[c] # None
                 THEN [prompt_table EXCEPT ![c] =
                         Some([Val(@) EXCEPT
                                 !.generated_prompts = ListCol(updated_prompts)])]
                 ELSE prompt_table
            /\ job' = [job EXCEPT ![w] =
                         IF ok
                         THEN [@ EXCEPT !.pc = "return", !.append_outcome = "success",
                                        !.prompts = Some(job[w].generated_prompts)]
                         ELSE AppendFailed(@)]
    /\ UNCHANGED <<entry, env, http, background_tasks>>

\* orchestrator.py 123-128 and main.py 74-84: the triple returned, and the
\* end of main.main when it holds no prompt
RunFlowReturn(w) ==
    /\ job[w].pc = "return"
    /\ LET result == [ category |-> job[w].category,
                       image_urls |-> Val(job[w].image_urls),
                       prompts |-> Val(job[w].prompts) ]
       IN job' = [job EXCEPT ![w].result = Some(result),
                             ![w].pc = IF EndsWithoutPrompts(result.prompts) THEN "done"
                                       ELSE "image_generation",
                             ![w].outcome = IF EndsWithoutPrompts(result.prompts)
                                            THEN "no_prompts" ELSE @]
    /\ UNCHANGED <<entry, env, prompt_table, http, background_tasks>>

\* main.py 86-117: the image generation, when the generator module loaded
ImageGeneration(w) ==
    /\ job[w].pc = "image_generation"
    /\ LET r == Val(job[w].result)
       IN job' = [job EXCEPT
                    ![w].pc = "done",
                    ![w].outcome = IF env.NanoBananaProGenerator THEN "finished"
                                   ELSE "generation_skipped",
                    ![w].generate_call =
                        IF env.NanoBananaProGenerator
                        THEN Some([ prompts |-> r.prompts,
                                    images |-> r.image_urls,
                                    model_version |-> job[w].model_version,
                                    saveRemotely |-> job[w].args.save_remotely,
                                    drive_folder_id |-> job[w].args.drive_folder_id,
                                    input_config |-> InputConfig(job[w].db_config) ])
                        ELSE None]
    /\ UNCHANGED <<entry, env, prompt_table, http, background_tasks>>

-----------------------------------------------------------------------------

Next ==
    \/ TriggerRun
    \/ \E w \in DOMAIN job : RunWorkflow(w)
    \/ \E w \in DOMAIN job : CallMain(w)
    \/ \E w \in DOMAIN job : MainInit(w)
    \/ \E w \in DOMAIN job : MainModelConfig(w)
    \/ \E w \in DOMAIN job : RunFlowConfig(w)
    \/ \E w \in DOMAIN job : RunFlowImages(w)
    \/ \E w \in DOMAIN job : RunFlowPrompts(w)
    \/ \E w \in DOMAIN job : RunFlowGenerate(w)
    \/ \E w \in DOMAIN job : AppendRead(w)
    \/ \E w \in DOMAIN job : AppendUpdate(w)
    \/ \E w \in DOMAIN job : RunFlowReturn(w)
    \/ \E w \in DOMAIN job : ImageGeneration(w)

Spec == Init /\ [][Next]_vars

-----------------------------------------------------------------------------
(* Two runs of main.main at the same time, on one store *)

RaceWorkers == {"w1", "w2"}

\* both categories have a row, "MD" with a log and "Self" with a null one
RaceTable ==
    [c \in CategoryTypes |-> IF c = "MD" THEN Some(RowFull) ELSE Some(RowLoose)]

\* each run names its category and leaves its prompts to be generated, or
\* brings its own
RaceArgs ==
    { [DefaultArgs EXCEPT !.category = Some(c), !.prompts = p,
                          !.min_val = Some(3), !.max_val = Some(3),
                          !.mode = Some("random"), !.model_version = Some("v1")] :
        c \in CategoryTypes, p \in {None, Some(<<>>), Some(<<"p1", "p2">>)} }

InitRace ==
    /\ entry = "main"
    /\ env = EnvAllSet
    /\ prompt_table = RaceTable
    /\ http = NoHttp
    /\ background_tasks = <<>>
    /\ job = [w \in RaceWorkers |-> IdleJob]

CallMainRace(w) == StartMain(w, RaceArgs)

NextRace ==
    \/ \E w \in DOMAIN job : CallMainRace(w)
    \/ \E w \in DOMAIN job : MainInit(w)
    \/ \E w \in DOMAIN job : MainModelConfig(w)
    \/ \E w \in DOMAIN job : RunFlowConfig(w)
    \/ \E w \in DOMAIN job : RunFlowImages(w)
    \/ \E w \in DOMAIN job : RunFlowPrompts(w)
    \/ \E w \in DOMAIN job : RunFlowGenerate(w)
    \/ \E w \in DOMAIN job : AppendRead(w)
    \/ \E w \in DOMAIN job : AppendUpdate(w)
    \/ \E w \in DOMAIN job : RunFlowReturn(w)
    \/ \E w \in DOMAIN job : ImageGeneration(w)

SpecRace == InitRace /\ [][NextRace]_vars

-----------------------------------------------------------------------------
(* Properties *)

HasCalled(j, name) == \E i \in 1..Len(j.calls) : j.calls[i] = name

CallCount(j, name) == Cardinality({i \in 1..Len(j.calls) : j.calls[i] = name})

\* run_flow has returned its triple
Resolved(j) == j.result # None

\* the calls run_flow makes to its collaborators
FlowCalls ==
    { "get_random_category", "get_prompt_config", "config.get(image_urls)",
      "get_random_prompt_count", "generate_image_prompts", "append_generated_prompts" }

\* C1, as claimed: a job whose prompts argument is a non-empty list never
\* calls get_prompt_config, whatever category and image_urls are.
C1_NoTemplateFetchWithPrompts ==
    \A w \in DOMAIN job :
        TruthyList(job[w].args.prompts) => ~HasCalled(job[w], "get_prompt_config")

\* C1, amended: a job whose prompts argument is a non-empty list calls
\* get_prompt_config only when image_urls is absent; once run_flow has
\* returned it has called it exactly once when image_urls is absent and
\* never when image_urls is supplied.
C1_TemplateFetchOnlyForAbsentImages ==
    \A w \in DOMAIN job :
        TruthyList(job[w].args.prompts) =>
            /\ HasCalled(job[w], "get_prompt_config") => job[w].args.image_urls = None
            /\ Resolved(job[w]) =>
                   CallCount(job[w], "get_prompt_config") =
                       IF job[w].args.image_urls = None THEN 1 ELSE 0

C1_Witness ==
    \E w \in DOMAIN job :
        /\ TruthyList(job[w].args.prompts)
        /\ job[w].args.image_urls # None
        /\ job[w].args.category = Some("MD")
        /\ Resolved(job[w])

\* C2: a job whose prompts argument is supplied (any list, the empty one
\* included) never calls generate_image_prompts, get_random_prompt_count or
\* append_generated_prompts, and run_flow returns the caller's list as it is.
C2_SuppliedPromptsSkipGeneration ==
    \A w \in DOMAIN job :
        job[w].args.prompts # None =>
            /\ ~HasCalled(job[w], "generate_image_prompts")
            /\ ~HasCalled(job[w], "get_random_prompt_count")
            /\ ~HasCalled(job[w], "append_generated_prompts")
            /\ job[w].pc \notin {"generate_prompts", "append_read", "append_update"}
            /\ Resolved(job[w]) => Val(job[w].result).prompts = Val(job[w].args.prompts)

C2_Witness ==
    \E w \in DOMAIN job :
        /\ job[w].args.prompts = Some(<<"p1", "p2">>)
        /\ job[w].config # None
        /\ Resolved(job[w])
        /\ Val(job[w].result).prompts = <<"p1", "p2">>

\* C3: a job whose image_urls argument is supplied (any list, the empty one
\* included) gets that list back from run_flow and never reads the image_urls
\* column of the stored record, even when the record was fetched.
C3_SuppliedImagesUnchanged ==
    \A w \in DOMAIN job :
        job[w].args.image_urls # None =>
            /\ ~HasCalled(job[w], "config.get(image_urls)")
            /\ job[w].image_urls \in {None, job[w].args.image_urls}
            /\ Resolved(job[w]) =>
                   Val(job[w].result).image_urls = Val(job[w].args.image_urls)

C3_Witness ==
    \E w \in DOMAIN job :
        /\ job[w].args.image_urls = Some(<<>>)
        /\ job[w].args.prompts = None
        /\ job[w].config = Some(RowFull)
        /\ Resolved(job[w])
        /\ Val(job[w].result).image_urls = <<>>

\* C4: a job whose prompts and image_urls arguments are both supplied makes
\* no call to the store, to the language model or to the random selector
\* inside run_flow, and run_flow returns the category, the image list and
\* the prompt list exactly as given (the category possibly None).
C4_BothSuppliedNoCalls ==
    \A w \in DOMAIN job :
        (job[w].args.prompts # None /\ job[w].args.image_urls # None) =>
            /\ \A i \in 1..Len(job[w].calls) : job[w].calls[i] \notin FlowCalls
            /\ job[w].config = None
            /\ Resolved(job[w]) =>
                   Val(job[w].result) =
                       [ category |-> job[w].args.category,
                         image_urls |-> Val(job[w].args.image_urls),
                         prompts |-> Val(job[w].args.prompts) ]

C4_Witness ==
    \E w \in DOMAIN job :
        /\ job[w].args.prompts = Some(<<"p1", "p2">>)
        /\ job[w].args.image_urls = Some(<<>>)
        /\ job[w].args.category = None
        /\ Resolved(job[w])
        /\ Val(job[w].result).category = None

\* the POST was accepted and trigger_run has returned
Accepted == http.status = 200

FinalIndex == 1..Len(http.final_requests)

\* the request of the batch, as received, that element i comes from
Original(i) == http.body[http.source_of[i]]

\* element i of final_requests, as the handler left it
Element(i) == http.heap[http.final_requests[i]]

\* C5: every job the endpoint scheduled, once it has ended, has either
\* stopped on missing configuration or started resolution (main.main went on
\* to the model configuration and run_flow).
C5_ScheduledJobsReachResolution ==
    \A w \in DOMAIN job :
        (job[w].origin = "api" /\ job[w].pc = "done") =>
            \/ job[w].outcome = "configuration_error"
            \/ HasCalled(job[w], "get_model_config")

\* C6: every copy made for a request with spawn_duplicate_requests that
\* leaves its prompts to be generated asks for one fixed prompt count: the
\* set of counts run_flow may draw for the copy's min_val and max_val has one
\* element, and it is the original's min_val when that is set.
C6_DuplicatesRequestFixedCount ==
    Accepted =>
        \A i \in FinalIndex :
            (Original(i).spawn_duplicate_requests /\ Element(i).prompts = None) =>
                LET counts == PromptCounts(Element(i).min_val, Element(i).max_val)
                IN /\ Cardinality(counts) = 1
                   /\ Original(i).min_val # None => counts = Original(i).min_val

RECURSIVE SumSeq(_)
SumSeq(q) == IF q = <<>> THEN 0 ELSE Head(q) + SumSeq(Tail(q))

\* n of the claim: maxCount, or 5 when unset
ClaimedCopies(r) == IF r.max_val # None THEN Val(r.max_val) ELSE 5

\* C8, as claimed: the expanded sequence has sum(n_i over duplicated
\* requests) + count(non-duplicated requests) elements, for every integer
\* maxCount.
C8_ExpandedLengthIsRawSum ==
    Accepted =>
        Len(http.final_requests) =
            SumSeq([k \in 1..Len(http.body) |->
                      IF http.body[k].spawn_duplicate_requests
                      THEN ClaimedCopies(http.body[k]) ELSE 1])

\* what a request contributes: max(n, 0) copies, or itself
Contribution(r) ==
    IF r.spawn_duplicate_requests
    THEN IF ClaimedCopies(r) > 0 THEN ClaimedCopies(r) ELSE 0
    ELSE 1

\* C8, amended: the expanded sequence has sum(max(n_i, 0) over duplicated
\* requests) + count(non-duplicated requests) elements; request k of the
\* batch contributes max(n_k, 0) copies or itself once, the contributions
\* follow batch order, the response counts the elements, and one background
\* task is scheduled per element, in that order, with the element's fields.
C8_ExpansionCountsAndOrder ==
    Accepted =>
        /\ Len(http.final_requests) =
               SumSeq([k \in 1..Len(http.body) |-> Contribution(http.body[k])])
        /\ Len(http.source_of) = Len(http.final_requests)
        /\ \A k \in 1..Len(http.body) :
               Cardinality({i \in FinalIndex : http.source_of[i] = k}) =
                   Contribution(http.body[k])
        /\ \A i, j \in FinalIndex : i < j => http.source_of[i] <= http.source_of[j]
        /\ \A i \in FinalIndex :
               ~Original(i).spawn_duplicate_requests =>
                   http.final_requests[i] = http.source_of[i]
        /\ http.workflows_started = Len(http.final_requests)
        /\ Len(background_tasks) <= Len(http.final_requests)
        /\ LET ran == Len(http.final_requests) - Len(background_tasks)
           IN \A i \in 1..Len(background_tasks) :
                  \A f \in RunWorkflowParams :
                      background_tasks[i][f] = Element(ran + i)[f]
        /\ (\A w \in DOMAIN job : job[w].pc = "idle") =>
               Len(background_tasks) = Len(http.final_requests)

C8_Witness ==
    /\ Accepted
    /\ Len(http.body) = 2
    /\ http.body[1].spawn_duplicate_requests
    /\ http.body[1].max_val = Some(3)
    /\ ~http.body[2].spawn_duplicate_requests
    /\ http.source_of = <<1, 1, 1, 2>>
    /\ Len(background_tasks) = 4
    /\ \A w \in DOMAIN job : job[w].pc = "idle"

\* the request is duplicated with maxCount zero or negative
NonPositiveCount(r) ==
    r.spawn_duplicate_requests /\ r.max_val # None /\ Val(r.max_val) <= 0

KeptOf(body) == SelectSeq(body, LAMBDA r : ~NonPositiveCount(r))

\* C9: a request with spawn_duplicate_requests and max_val <= 0 contributes
\* no element and no background task, the POST is still accepted, and the
\* elements and tasks of the batch are those of the batch without it.
C9_NonPositiveCountDropsRequest ==
    Accepted =>
        /\ \A k \in 1..Len(http.body) :
               NonPositiveCount(http.body[k]) =>
                   \A i \in FinalIndex : http.source_of[i] # k
        /\ [i \in FinalIndex |-> TaskOf(Element(i))] =
               ScheduledTasks(Expand(KeptOf(http.body)))
        /\ (\A w \in DOMAIN job : job[w].pc = "idle") =>
               background_tasks = ScheduledTasks(Expand(KeptOf(http.body)))

C9_Witness ==
    /\ Accepted
    /\ Len(http.body) = 2
    /\ NonPositiveCount(http.body[1])
    /\ http.body[1].max_val = Some(-1)
    /\ ~http.body[2].spawn_duplicate_requests
    /\ http.source_of = <<2>>
    /\ Len(background_tasks) = 1
    /\ \A w \in DOMAIN job : job[w].pc = "idle"

\* C10: when the image generation is called for a job that gave no
\* resolution or aspect_ratio and whose model record was not found, or sets
\* neither, the input_config it is handed has resolution "2K" and
\* aspect_ratio "16:9".
C10_DefaultsReachInputConfig ==
    \A w \in DOMAIN job :
        ( /\ job[w].generate_call # None
          /\ job[w].args.resolution = None
          /\ job[w].args.aspect_ratio = None
          /\ \/ job[w].fetched_config = None
             \/ {"resolution", "aspect_ratio"} \cap DOMAIN Val(job[w].fetched_config) = {} )
        => LET input_config == Val(job[w].generate_call).input_config
           IN /\ DictGet(input_config, "resolution", "") = "2K"
              /\ DictGet(input_config, "aspect_ratio", "") = "16:9"

-----------------------------------------------------------------------------
(* The model configuration *)

\* main.main has been through the model configuration (main.py 33-62)
Configured(j) == HasCalled(j, "get_model_config")

\* the stored parameter set: the record's, or the empty fallback
StoredConfig(j) ==
    IF j.fetched_config # None THEN Val(j.fetched_config) ELSE EmptyDict

OverrideFields == {"resolution", "aspect_ratio"}

\* field f of d is as the stored parameter set has it, absent when absent
KeepsStored(d, stored, f) ==
    /\ (f \in DOMAIN d) = (f \in DOMAIN stored)
    /\ f \in DOMAIN d => d[f] = stored[f]

\* C11, as claimed: for every stored or fallback parameter set, every
\* non-null resolution or aspect_ratio argument is the value of that field in
\* the resolved parameter set, and a field without an argument keeps the
\* stored value.
C11_NonNullOverrideWins ==
    \A w \in DOMAIN job :
        Configured(job[w]) =>
            \A f \in OverrideFields :
                IF job[w].args[f] # None
                THEN /\ f \in DOMAIN job[w].db_config
                     /\ job[w].db_config[f] = Val(job[w].args[f])
                ELSE KeepsStored(job[w].db_config, StoredConfig(job[w]), f)

\* C11, amended: every resolution or aspect_ratio argument that is a
\* non-empty string is the value of that field in the resolved parameter
\* set; a field whose argument is None or the empty string keeps the stored
\* value (absent when the stored set has none); every other key is the
\* stored one; the image generation is handed the resolved set.
C11_NonEmptyOverrideWins ==
    \A w \in DOMAIN job :
        Configured(job[w]) =>
            /\ \A f \in OverrideFields :
                   IF TruthyStr(job[w].args[f])
                   THEN /\ f \in DOMAIN job[w].db_config
                        /\ job[w].db_config[f] = Val(job[w].args[f])
                   ELSE KeepsStored(job[w].db_config, StoredConfig(job[w]), f)
            /\ \A k \in ((DOMAIN job[w].db_config) \cup (DOMAIN StoredConfig(job[w])))
                          \ OverrideFields :
                   KeepsStored(job[w].db_config, StoredConfig(job[w]), k)
            /\ job[w].generate_call # None =>
                   Val(job[w].generate_call).input_config = job[w].db_config

C11_Witness ==
    \E w \in DOMAIN job :
        /\ job[w].generate_call # None
        /\ job[w].args.resolution = Some("4K")
        /\ job[w].args.aspect_ratio = None
        /\ DictGet(StoredConfig(job[w]), "resolution", "") = "1K"
        /\ DictGet(StoredConfig(job[w]), "aspect_ratio", "") = "4:3"
        /\ Val(job[w].generate_call).input_config["resolution"] = "4K"
        /\ Val(job[w].generate_call).input_config["aspect_ratio"] = "4:3"

\* get_model_config returned a record
RecordFound(j) == j.fetched_config # None

\* the rows whose config, name injected, is what get_model_config returned
FoundRows(j) ==
    {r \in ModelQueryMatches(j.args.model_version) :
        j.fetched_config = Some(ModelConfigOf(r))}

\* the caller's version, or the built-in one when the caller gave none
CallerOrBuiltIn(j) ==
    IF j.args.model_version = None THEN Some(default_model_version)
    ELSE j.args.model_version

\* C12, as claimed: the resolved model version is the found record's name
\* whenever a record is found; with no record found it is the caller's
\* version when one was given and "google/nano-banana-pro", with an empty
\* stored parameter set, when none was given; the built-in version is used
\* only when no record is found and no version was requested.
C12_RecordNameElseCallerElseBuiltIn ==
    \A w \in DOMAIN job :
        Configured(job[w]) =>
            /\ RecordFound(job[w]) =>
                   \A r \in FoundRows(job[w]) : job[w].model_version = r.name
            /\ ~RecordFound(job[w]) =>
                   /\ job[w].model_version = CallerOrBuiltIn(job[w])
                   /\ StoredConfig(job[w]) = EmptyDict
            /\ job[w].model_version = Some(default_model_version) =>
                   ~RecordFound(job[w]) /\ job[w].args.model_version = None

\* C12, amended: a found record with a non-empty name gives its name; a
\* found record without a name that holds parameters leaves the caller's
\* version as it is; no record, or a found record with neither name nor
\* parameters, gives the caller's version when one was given and
\* "google/nano-banana-pro" otherwise, and then the stored parameter set is
\* empty; the image generation is handed the resolved version.
C12_NamedRecordElseCallerElseBuiltIn ==
    \A w \in DOMAIN job :
        Configured(job[w]) =>
            /\ RecordFound(job[w]) =>
                   \A r \in FoundRows(job[w]) :
                       job[w].model_version =
                           IF TruthyStr(r.name) THEN r.name
                           ELSE IF r.config # EmptyDict THEN job[w].args.model_version
                           ELSE CallerOrBuiltIn(job[w])
            /\ RecordFound(job[w]) => FoundRows(job[w]) # {}
            /\ ~RecordFound(job[w]) =>
                   /\ job[w].model_version = CallerOrBuiltIn(job[w])
                   /\ StoredConfig(job[w]) = EmptyDict
            /\ job[w].model_version = Some(default_model_version) =>
                   /\ job[w].args.model_version = None
                   /\ StoredConfig(job[w]) = EmptyDict
            /\ job[w].generate_call # None =>
                   Val(job[w].generate_call).model_version = job[w].model_version

C12_Witness ==
    \E w \in DOMAIN job :
        /\ job[w].generate_call # None
        /\ job[w].args.model_version = None
        /\ RecordFound(job[w])
        /\ \E r \in FoundRows(job[w]) : r.name = Some("v2")
        /\ Val(job[w].generate_call).model_version = Some("v2")

-----------------------------------------------------------------------------
(* The generated-prompt log *)

\* the log of category c before any job ran
InitialLog(c) == StoredLog(RaceTable, c)

\* the jobs whose append to the log of c has printed its success line
Appenders(c) ==
    {w \in DOMAIN job : job[w].append_outcome = "success" /\ job[w].category = Some(c)}

\* C13: with two jobs running at once, the log of a category no append has
\* succeeded on is the initial one; after one successful append it is the
\* initial log followed by that job's prompts; after two it is the initial
\* log followed by both jobs' prompts in either order, or by the prompts of
\* one job alone (the other update is lost). Hence two jobs appending to
\* different categories lose nothing: each log is the initial one followed by
\* its job's prompts. The state with a lost update is C13_Witness.
C13_LostUpdateOnlyOnSameCategory ==
    /\ \A c \in CategoryTypes :
           LET log == StoredLog(prompt_table, c)
               new(w) == job[w].generated_prompts
           IN /\ Appenders(c) = {} => log = InitialLog(c)
              /\ \A a \in Appenders(c) :
                     Appenders(c) = {a} => log = InitialLog(c) \o new(a)
              /\ \A a, b \in Appenders(c) :
                     (a # b) =>
                         log \in { InitialLog(c) \o new(a) \o new(b),
                                   InitialLog(c) \o new(b) \o new(a),
                                   InitialLog(c) \o new(a),
                                   InitialLog(c) \o new(b) }
    /\ \A a, b \in DOMAIN job :
           ( /\ job[a].append_outcome = "success"
             /\ job[b].append_outcome = "success"
             /\ job[a].category # job[b].category )
           => StoredLog(prompt_table, Val(job[a].category)) =
                  InitialLog(Val(job[a].category)) \o job[a].generated_prompts

\* both appends to "MD" have reported success and the log lacks "g2"
C13_Witness ==
    /\ job["w1"].append_outcome = "success"
    /\ job["w2"].append_outcome = "success"
    /\ job["w1"].category = Some("MD")
    /\ job["w2"].category = Some("MD")
    /\ job["w1"].generated_prompts = <<"g1", "g2">>
    /\ job["w2"].generated_prompts = <<"g1">>
    /\ StoredLog(prompt_table, "MD") = <<"old", "g1">>

\* two successful appends to different categories
C13_WitnessApart ==
    /\ job["w1"].append_outcome = "success"
    /\ job["w2"].append_outcome = "success"
    /\ job["w1"].category = Some("MD")
    /\ job["w2"].category = Some("Self")
    /\ StoredLog(prompt_table, "MD") = <<"old", "g1", "g2">>
    /\ StoredLog(prompt_table, "Self") = <<"g1">>

\* the step is the update of append_generated_prompts by job w, succeeding
UpdateStepOf(w) ==
    /\ job[w].pc = "append_update"
    /\ job'[w].append_outcome = "success"

\* C14: every step leaves the log of every category as it was unless it is
\* the succeeding update of the append of a job on that category, a job whose
\* prompts were not supplied and whose generation returned at least one
\* prompt; that update changes nothing else in the row; and when the log is
\* still the one the job read, the log afterwards is that log followed by
\* the job's generated prompts in order. No job ever calls the append with
\* supplied prompts or with an empty generation.
C14_LogOnlyAppendedAfterGeneration ==
    [][ /\ \A c \in CategoryTypes :
               prompt_table'[c] # prompt_table[c] =>
                   \E w \in DOMAIN job :
                       /\ UpdateStepOf(w)
                       /\ job[w].category = Some(c)
                       /\ job[w].args.prompts = None
                       /\ job[w].generated_prompts # <<>>
                       /\ job[w].calls[Len(job[w].calls)] = "append_generated_prompts"
                       /\ HasCalled(job[w], "generate_image_prompts")
                       /\ prompt_table'[c] =
                              Some([Val(prompt_table[c]) EXCEPT
                                      !.generated_prompts =
                                          Val(prompt_table'[c]).generated_prompts])
        /\ \A w \in DOMAIN job :
               ( /\ UpdateStepOf(w)
                 /\ StoredLog(prompt_table, Val(job[w].category)) =
                        job[w].existing_prompts )
               => StoredLog(prompt_table', Val(job[w].category)) =
                      StoredLog(prompt_table, Val(job[w].category))
                          \o job[w].generated_prompts
        /\ \A w \in DOMAIN job :
               HasCalled(job'[w], "append_generated_prompts") =>
                   /\ job'[w].args.prompts = None
                   /\ job'[w].generated_prompts # <<>>
      ]_vars

\* one job brought its prompts and the log of its category is untouched,
\* the other generated two and the log of its category ends with them
C14_Witness ==
    /\ job["w1"].args.prompts = Some(<<"p1", "p2">>)
    /\ job["w1"].category = Some("Self")
    /\ job["w1"].pc = "done"
    /\ StoredLog(prompt_table, "Self") = <<>>
    /\ job["w2"].append_outcome = "success"
    /\ job["w2"].category = Some("MD")
    /\ job["w2"].generated_prompts = <<"g1", "g2">>
    /\ StoredLog(prompt_table, "MD") = <<"old", "g1", "g2">>

-----------------------------------------------------------------------------
(* Jobs that end without prompts or with an error *)

\* run_flow returned an empty prompt list
NoPrompts(j) == Resolved(j) /\ Val(j.result).prompts = <<>>

\* C15: when run_flow returns an empty prompt list the job is over with the
\* "No prompts were generated." ending and the image generation was never
\* called; this is what happens when the language model returned no prompt
\* or failed, when no record was fetched and when the caller's list is
\* empty; the image generation is only ever called with prompts. The step
\* that ends such a job changes no other job, the queue of tasks or the
\* store, so the other jobs go on.
C15_NoPromptsEndsJobAlone ==
    /\ [](\A w \in DOMAIN job :
              /\ NoPrompts(job[w]) =>
                     /\ job[w].pc = "done"
                     /\ job[w].outcome = "no_prompts"
                     /\ job[w].generate_call = None
              /\ Resolved(job[w]) =>
                     /\ ( /\ HasCalled(job[w], "generate_image_prompts")
                          /\ job[w].generated_prompts = <<>> ) => NoPrompts(job[w])
                     /\ (job[w].args.prompts = None /\ job[w].config = None)
                            => NoPrompts(job[w])
                     /\ job[w].args.prompts = Some(<<>>) => NoPrompts(job[w])
              /\ job[w].generate_call # None =>
                     Val(job[w].generate_call).prompts # <<>>)
    /\ [][\A w \in DOMAIN job :
              (~NoPrompts(job[w]) /\ NoPrompts(job'[w])) =>
                  /\ \A v \in (DOMAIN job) \ {w} : job'[v] = job[v]
                  /\ UNCHANGED <<background_tasks, prompt_table, env>>]_vars

\* one job ended without prompts after the language model returned none,
\* the other went on to the image generation
C15_Witness ==
    /\ NoPrompts(job["w1"])
    /\ HasCalled(job["w1"], "generate_image_prompts")
    /\ job["w1"].outcome = "no_prompts"
    /\ job["w1"].generate_call = None
    /\ job["w2"].outcome = "finished"
    /\ job["w2"].generate_call # None

\* C16: a job that has called append_generated_prompts calls it once, and
\* whether the append succeeded or failed in its read or in its update the
\* job ends with run_flow having returned the generated prompts and with no
\* exception; the step on which the append fails leaves the store as it was.
C16_AppendFailureDoesNotFailResolution ==
    /\ [](\A w \in DOMAIN job :
              HasCalled(job[w], "append_generated_prompts") =>
                  /\ CallCount(job[w], "append_generated_prompts") = 1
                  /\ job[w].pc \in {"append_update", "return", "image_generation", "done"}
                  /\ job[w].outcome \in {"none", "finished", "generation_skipped"}
                  /\ job[w].pc # "append_update" =>
                         job[w].prompts = Some(job[w].generated_prompts)
                  /\ job[w].pc \in {"image_generation", "done"} =>
                         /\ Resolved(job[w])
                         /\ Val(job[w].result).prompts = job[w].generated_prompts
                         /\ Val(job[w].result).prompts # <<>>
                  /\ job[w].append_outcome = "error" =>
                         job[w].pc \in {"return", "image_generation", "done"})
    /\ [][\A w \in DOMAIN job :
              (job[w].append_outcome # "error" /\ job'[w].append_outcome = "error") =>
                  /\ prompt_table' = prompt_table
                  /\ job'[w].pc = "return"]_vars

\* the update of the append failed after the log was read: the log is as it
\* was and the job went on to the image generation with its generated prompts
C16_Witness ==
    \E w \in DOMAIN job :
        /\ job[w].append_outcome = "error"
        /\ job[w].existing_prompts = <<"old">>
        /\ StoredLog(prompt_table, "MD") = <<"old">>
        /\ Resolved(job[w])
        /\ Val(job[w].result).prompts = <<"g1", "g2">>
        /\ job[w].outcome = "finished"

\* the template fetch was made and gave nothing: no row, or the query raised
FetchGaveNothing(j) == HasCalled(j, "get_prompt_config") /\ j.config = None

\* C17: a job whose template fetch gave nothing raises nothing and calls
\* neither the language model, the random count nor the append; run_flow
\* returns the category given (or the one selected), the image list given or
\* [] when none was given, and the prompt list given or [] when none was
\* given.
C17_NoRecordDegradesToEmpty ==
    \A w \in DOMAIN job :
        FetchGaveNothing(job[w]) =>
            /\ ~HasCalled(job[w], "generate_image_prompts")
            /\ ~HasCalled(job[w], "append_generated_prompts")
            /\ ~HasCalled(job[w], "get_random_prompt_count")
            /\ ~HasCalled(job[w], "config.get(image_urls)")
            /\ job[w].outcome \in {"none", "no_prompts", "finished", "generation_skipped"}
            /\ job[w].pc \in {"images", "prompts", "return", "image_generation", "done"}
            /\ job[w].pc \in {"image_generation", "done"} =>
                   /\ Resolved(job[w])
                   /\ Val(job[w].result).category =
                          IF TruthyStr(job[w].args.category) THEN job[w].args.category
                          ELSE Some(get_random_category)
                   /\ Val(job[w].result).image_urls =
                          IF job[w].args.image_urls # None
                          THEN Val(job[w].args.image_urls) ELSE <<>>
                   /\ Val(job[w].result).prompts =
                          IF job[w].args.prompts # None
                          THEN Val(job[w].args.prompts) ELSE <<>>

\* the store has the row but the fetch failed: the images given come back
\* and the prompts, which the record was needed for, are the empty list
C17_Witness ==
    \E w \in DOMAIN job :
        /\ FetchGaveNothing(job[w])
        /\ prompt_table["MD"] = Some(RowFull)
        /\ job[w].args.category = Some("MD")
        /\ job[w].args.image_urls = Some(<< <<"u">> >>)
        /\ job[w].args.prompts = None
        /\ Resolved(job[w])
        /\ Val(job[w].result) =
               [category |-> Some("MD"), image_urls |-> << <<"u">> >>, prompts |-> <<>>]

\* the category has no row: the prompts given come back and the images are
\* the empty list
C17_WitnessNoRow ==
    \E w \in DOMAIN job :
        /\ FetchGaveNothing(job[w])
        /\ job[w].args.category = Some("Self")
        /\ job[w].args.image_urls = None
        /\ job[w].args.prompts = Some(<<"p1", "p2">>)
        /\ job[w].outcome = "finished"
        /\ Val(job[w].result) =
               [category |-> Some("Self"), image_urls |-> <<>>, prompts |-> <<"p1", "p2">>]

\* the position in final_requests of the task the background worker ran last
LastRun == Len(http.final_requests) - Len(background_tasks)

\* the request leaves its prompts to be generated and its counts, after the
\* defaults, are an empty range
InvalidRange(r) ==
    r.prompts = None /\ RandintRaises(target_min(r.min_val), target_max(r.max_val))

\* C18: a job scheduled by the endpoint for a request with min_val > max_val
\* (after the defaults 2 and 5) that has ended has ended on the invalid
\* range: it stopped in the count resolution, at get_random_prompt_count,
\* unless configuration was missing or no record was fetched for it.
C18_InvalidRangeFailsInCountResolution ==
    Accepted =>
        \A w \in DOMAIN job :
            ( /\ job[w].origin = "api"
              /\ job[w].pc = "done"
              /\ InvalidRange(Element(LastRun)) )
            => \/ HasCalled(job[w], "get_random_prompt_count")
               \/ FetchGaveNothing(job[w])
               \/ job[w].outcome = "configuration_error"

\* what the claim says of a job, seen on a direct call of main.main: the
\* empty range ends the job with ValueError out of get_random_prompt_count,
\* nothing generated, nothing appended, no image generation
C18_DirectCallRaisesValueError ==
    \A w \in DOMAIN job :
        ( /\ job[w].origin = "direct"
          /\ HasCalled(job[w], "get_random_prompt_count")
          /\ InvalidRange(job[w].args) )
        => /\ job[w].pc = "done"
           /\ job[w].outcome = "ValueError"
           /\ ~HasCalled(job[w], "generate_image_prompts")
           /\ ~HasCalled(job[w], "append_generated_prompts")
           /\ job[w].generate_call = None
           /\ job[w].prompt_count = None

-----------------------------------------------------------------------------
(* The prompt count *)

\* run_flow has been through get_random_prompt_count
CountResolved(j) == HasCalled(j, "get_random_prompt_count")

\* C19: in every job that reached the count resolution with bounds min and
\* max (min_val or 2, max_val or 5): when min <= max the count handed to the
\* language model is an integer c with min <= c <= max, so c = k when
\* min = max = k, and nothing is raised there; when min > max the job ends
\* with ValueError and no count; with min_val and max_val both unset the
\* count is in {2, 3, 4, 5}. The set of counts the selector may return is
\* exactly min..max.
C19_CountWithinBoundsOrValueError ==
    \A w \in DOMAIN job :
        (job[w].origin = "direct" /\ CountResolved(job[w])) =>
            LET min == target_min(job[w].args.min_val)
                max == target_max(job[w].args.max_val)
            IN /\ min <= max =>
                      /\ job[w].prompt_count # None
                      /\ Val(job[w].prompt_count) \in Int
                      /\ min <= Val(job[w].prompt_count)
                      /\ Val(job[w].prompt_count) <= max
                      /\ min = max => Val(job[w].prompt_count) = min
                      /\ job[w].outcome # "ValueError"
                      /\ PromptCounts(job[w].args.min_val, job[w].args.max_val) = min..max
               /\ min > max =>
                      /\ job[w].prompt_count = None
                      /\ job[w].pc = "done"
                      /\ job[w].outcome = "ValueError"
                      /\ ~HasCalled(job[w], "generate_image_prompts")
               /\ (job[w].args.min_val = None /\ job[w].args.max_val = None) =>
                      /\ job[w].prompt_count # None
                      /\ Val(job[w].prompt_count) \in {2, 3, 4, 5}

\* pickCount(3, 3) gave 3 and the language model was asked
C19_Witness ==
    \E w \in DOMAIN job :
        /\ job[w].args.min_val = Some(3)
        /\ job[w].args.max_val = Some(3)
        /\ job[w].prompt_count = Some(3)
        /\ HasCalled(job[w], "generate_image_prompts")

\* pickCount(7, 3) raised
C19_WitnessInvalid ==
    \E w \in DOMAIN job :
        /\ job[w].args.min_val = Some(7)
        /\ job[w].args.max_val = Some(3)
        /\ CountResolved(job[w])
        /\ job[w].outcome = "ValueError"

\* every count of {2, 3, 4, 5} is drawn with both bounds unset
C19_WitnessDefaults ==
    \E w \in DOMAIN job :
        /\ job[w].args.min_val = None
        /\ job[w].args.max_val = None
        /\ job[w].prompt_count = Some(5)

-----------------------------------------------------------------------------
(* The bearer credential *)

\* the POST has been answered
Answered == http.status # 0

\* the credential presented equals the secret the server is configured with
CredentialMatches ==
    env.API_AUTH_TOKEN # None /\ http.token = env.API_AUTH_TOKEN

\* C20: the POST is accepted exactly when the bearer token equals
\* API_AUTH_TOKEN; otherwise the answer is an error (500 when the secret is
\* not configured, 401 when the token differs), no background task is
\* scheduled and no job ever starts, whatever the batch holds; and before
\* the POST is answered there is no task and no job.
C20_NoJobWithoutMatchingCredential ==
    entry = "app" =>
        /\ Accepted <=> (Answered /\ CredentialMatches)
        /\ (Answered /\ ~CredentialMatches) =>
               /\ http.status = IF env.API_AUTH_TOKEN = None THEN 500 ELSE 401
               /\ background_tasks = <<>>
               /\ http.final_requests = <<>>
               /\ http.workflows_started = 0
               /\ \A w \in DOMAIN job : job[w] = IdleJob
        /\ ~Answered =>
               /\ background_tasks = <<>>
               /\ \A w \in DOMAIN job : job[w] = IdleJob
        /\ (\E w \in DOMAIN job : job[w] # IdleJob) => CredentialMatches
        /\ background_tasks # <<>> => CredentialMatches

\* a batch of two requests presented with the wrong token: 401 and no task
C20_Witness ==
    /\ Answered
    /\ http.token = Some("wrong")
    /\ env.API_AUTH_TOKEN = Some("secret")
    /\ Len(http.body) = 2
    /\ http.status = 401
    /\ background_tasks = <<>>

\* the secret is not configured: 500 and no task, whatever the token
C20_WitnessUnconfigured ==
    /\ Answered
    /\ env.API_AUTH_TOKEN = None
    /\ http.token = Some("secret")
    /\ Len(http.body) = 2
    /\ http.status = 500
    /\ background_tasks = <<>>

-----------------------------------------------------------------------------
(* Missing configuration *)

\* one of the variables the two clients are built from is unset
ConfigurationMissing == ~env.SUPABASE \/ ~env.OPENAI_API_KEY

\* C21: when SUPABASE_URL or SUPABASE_KEY, or OPENAI_API_KEY, is unset, a
\* call of main.main ends at the construction of the Orchestrator with the
\* configuration error: the job makes no call to the store, to the random
\* selector or to the language model, run_flow is never entered, the image
\* generation is never called, and no step changes the store.
C21_MissingConfigurationAbortsBeforeAnyStep ==
    /\ [](ConfigurationMissing =>
              \A w \in DOMAIN job :
                  /\ job[w].calls = <<>>
                  /\ job[w].pc \in {"idle", "main", "done"}
                  /\ job[w].pc = "done" => job[w].outcome = "configuration_error"
                  /\ job[w].fetched_config = None
                  /\ job[w].config = None
                  /\ job[w].result = None
                  /\ job[w].generate_call = None
                  /\ job[w].append_outcome = "none")
    /\ [][ConfigurationMissing => prompt_table' = prompt_table]_vars
    /\ [](\A w \in DOMAIN job :
              job[w].outcome = "configuration_error" => ConfigurationMissing)

\* OPENAI_API_KEY alone is unset, the store holds a record, and the call
\* that left everything to be resolved has ended
C21_Witness ==
    \E w \in DOMAIN job :
        /\ env.SUPABASE
        /\ ~env.OPENAI_API_KEY
        /\ prompt_table["MD"] = Some(RowFull)
        /\ job[w].args.prompts = None
        /\ job[w].args.image_urls = None
        /\ job[w].pc = "done"
        /\ job[w].outcome = "configuration_error"
        /\ job[w].calls = <<>>

\* SUPABASE_URL or SUPABASE_KEY is unset
C21_WitnessStore ==
    \E w \in DOMAIN job :
        /\ ~env.SUPABASE
        /\ job[w].pc = "done"
        /\ job[w].outcome = "configuration_error"

-----------------------------------------------------------------------------
(* The instruction *)

\* run_flow has composed the instruction for the language model
Instructed(j) == j.prompt_instruction # <<>>

\* C22: once a job has composed its instruction from the record it fetched,
\* the instruction is the record's system_prompt, the blank line "\n\n" and
\* a variant; with mode "random" the variant is an element of
\* dynamic_prompt, with any other mode ("standard", or a value the code does
\* not know) an element of standard_prompt; when that column is an empty
\* list, null, a string or any other value the variant is "" and the job
\* still goes on to the prompt count and the language model, which is
\* handed this instruction.
C22_InstructionVariantByMode ==
    \A w \in DOMAIN job :
        /\ Instructed(job[w]) =>
               LET row == Val(job[w].config)
                   variant == job[w].prompt_instruction[3]
                   column == IF job[w].args.mode = Some("random")
                             THEN row.dynamic_prompt ELSE row.standard_prompt
               IN /\ job[w].args.prompts = None
                  /\ job[w].config # None
                  /\ Len(job[w].prompt_instruction) = 3
                  /\ job[w].prompt_instruction[1] = row.system_prompt
                  /\ job[w].prompt_instruction[2] = "\n\n"
                  /\ IF column.type = "list" /\ column.val # <<>>
                     THEN \E i \in 1..Len(column.val) : variant = column.val[i]
                     ELSE variant = ""
                  /\ job[w].pc # "generate_prompts" =>
                         HasCalled(job[w], "generate_image_prompts")
        /\ HasCalled(job[w], "generate_image_prompts") => Instructed(job[w])
        /\ ( /\ job[w].args.prompts = None
             /\ job[w].config # None
             /\ job[w].pc \in {"return", "image_generation"} ) => Instructed(job[w])

\* a mode the code does not know draws from standard_prompt
C22_Witness ==
    \E w \in DOMAIN job :
        /\ job[w].args.mode = Some("other")
        /\ job[w].config = Some(RowFull)
        /\ job[w].prompt_instruction = <<"SYS", "\n\n", "s2">>
        /\ HasCalled(job[w], "generate_image_prompts")

\* mode "random" on a dynamic_prompt that is a string: the empty variant,
\* and the language model is still called
C22_WitnessEmptyVariant ==
    \E w \in DOMAIN job :
        /\ job[w].args.mode = Some("random")
        /\ job[w].config = Some(RowText)
        /\ job[w].prompt_instruction = <<"SYS", "\n\n", "">>
        /\ HasCalled(job[w], "generate_image_prompts")

\* mode "random" draws from dynamic_prompt
C22_WitnessRandom ==
    \E w \in DOMAIN job :
        /\ job[w].args.mode = Some("random")
        /\ job[w].config = Some(RowFull)
        /\ job[w].prompt_instruction = <<"SYS", "\n\n", "d1">>

-----------------------------------------------------------------------------
(* The image list *)

\* the places where the string is cut: before it, at its commas, after it
Cuts(s) == {0, Len(s) + 1} \cup {i \in 1..Len(s) : s[i] = ","}

\* cut number n, counted from 0
Cut(s, n) == CHOOSE c \in Cuts(s) : Cardinality({d \in Cuts(s) : d < c}) = n

\* entry n of the string: what lies between cut n - 1 and cut n
Segment(s, n) == SubSeq(s, Cut(s, n - 1) + 1, Cut(s, n) - 1)

\* e is seg without the whitespace at its two ends
TrimOf(seg, e) ==
    /\ \E a, b \in 0..Len(seg) :
           /\ a + b <= Len(seg)
           /\ e = SubSeq(seg, a + 1, Len(seg) - b)
           /\ \A i \in 1..a : seg[i] \in Whitespace
           /\ \A i \in (Len(seg) - b + 1)..Len(seg) : seg[i] \in Whitespace
    /\ e # <<>> => (e[1] \notin Whitespace /\ e[Len(e)] \notin Whitespace)

\* out is the string cut at its commas, each entry trimmed
IsSplitAndTrimmed(s, out) ==
    /\ Len(out) = Cardinality(Cuts(s)) - 1
    /\ \A n \in 1..Len(out) : TrimOf(Segment(s, n), out[n])

\* C23: in a job that was given no image_urls, the image list run_flow
\* resolves and returns is the stored image_urls itself when the record
\* holds a list, the entries between the commas of the stored string, each
\* without the whitespace at its ends, when it holds a string, the empty
\* list when it holds null or any other value, and the empty list when no
\* record was fetched.
C23_ImageListFromRecord ==
    \A w \in DOMAIN job :
        (job[w].args.image_urls = None /\ job[w].image_urls # None) =>
            LET images == Val(job[w].image_urls)
            IN /\ job[w].config = None => images = <<>>
               /\ job[w].config # None =>
                      LET col == Val(job[w].config).image_urls
                      IN /\ col.type = "list" => images = col.val
                         /\ col.type = "str" => IsSplitAndTrimmed(col.val[1], images)
                         /\ col.type \notin {"list", "str"} => images = <<>>
               /\ Resolved(job[w]) => Val(job[w].result).image_urls = images
               /\ job[w].generate_call # None =>
                      Val(job[w].generate_call).images = images

\* the string " x,,y " gives the entries "x", "" and "y"
C23_Witness ==
    \E w \in DOMAIN job :
        /\ job[w].args.image_urls = None
        /\ job[w].config = Some(RowText)
        /\ Resolved(job[w])
        /\ Val(job[w].result).image_urls = << <<"x">>, <<>>, <<"y">> >>

\* a stored list comes back as it is
C23_WitnessList ==
    \E w \in DOMAIN job :
        /\ job[w].args.image_urls = None
        /\ job[w].config = Some(RowFull)
        /\ Resolved(job[w])
        /\ Val(job[w].result).image_urls = << <<"x">>, <<"y">> >>

\* a stored value that is neither a string nor a list, and a null one
C23_WitnessOther ==
    \E w \in DOMAIN job :
        /\ job[w].args.image_urls = None
        /\ job[w].config \in {Some(RowOther), Some(RowNull)}
        /\ Resolved(job[w])
        /\ Val(job[w].result).image_urls = <<>>

====
